---- MODULE Spec2Model ----
(***************************************************************************)
(* Model of scripts/man_pages.py: run() walks the man page source tree,    *)
(* renders every page with mandoc, writes the Sphinx index and stub files  *)
(* and calls add_hyperlinks(), which rewrites the Xr cross references of   *)
(* every rendered fragment.                                                *)
(*                                                                         *)
(* Strings the code inspects character by character (directory names,     *)
(* file names, page names) are sequences of one-character strings.  A      *)
(* rendered fragment is a sequence of tokens: an "xr" token is             *)
(*   <a class="Xr"[ title="Xr"]>name(num)</a>                              *)
(* an "href" token is                                                      *)
(*   <a href="../num/name.num.html" class="Xr">name(num)</a>               *)
(* "text" is text without markup and "nl" is a line break.                 *)
(***************************************************************************)
EXTENDS Integers, Sequences, FiniteSets, TLC

\* ------------------------------------------------------------------ bounds
MaxFiles == 2     \* files listed in one section directory
MaxTokens == 3    \* tokens of a fragment handed to add_hyperlinks
MaxPages == 2     \* pages of the registry handed to add_hyperlinks

\* ------------------------------------------------------- string constants
S_man == <<"m", "a", "n">>
S_html == <<".", "h", "t", "m", "l">>
S_rst == <<".", "r", "s", "t">>
S_in == <<".", "i", "n">>
S_index == <<"i", "n", "d", "e", "x">>

man_sections ==
  [n \in {<<"1">>, <<"2">>, <<"3">>, <<"4">>, <<"5">>, <<"6">>, <<"7">>, <<"8">>} |->
     CASE n = <<"1">> -> "User Commands"
       [] n = <<"2">> -> "System Calls"
       [] n = <<"3">> -> "C Library Functions"
       [] n = <<"4">> -> "Devices and Special Files"
       [] n = <<"5">> -> "File Formats and Conventions"
       [] n = <<"6">> -> "Games"
       [] n = <<"7">> -> "Miscellaneous"
       [] n = <<"8">> -> "System Administration Commands"]

\* iteration order of the man_sections dict (insertion order)
section_order ==
  << <<"1">>, <<"2">>, <<"3">>, <<"4">>, <<"5">>, <<"6">>, <<"7">>, <<"8">> >>

man_section_dir == "man"
build_dir == "_build/man"

\* --------------------------------------------------- Python string methods
startswith(s, p) == Len(s) >= Len(p) /\ SubSeq(s, 1, Len(p)) = p

endswith(s, suf) ==
  Len(s) >= Len(suf) /\ SubSeq(s, Len(s) - Len(suf) + 1, Len(s)) = suf

\* str.replace(old, new): every non-overlapping occurrence, left to right
RECURSIVE replace(_, _, _)
replace(s, old, new) ==
  IF s = <<>> THEN <<>>
  ELSE IF startswith(s, old)
       THEN new \o replace(SubSeq(s, Len(old) + 1, Len(s)), old, new)
       ELSE <<Head(s)>> \o replace(Tail(s), old, new)

\* str.rstrip(chars): drops trailing characters that are in the set chars
rstrip_keep(s, chars) == s

RECURSIVE rstrip(_, _)
rstrip(s, chars) ==
  IF s # <<>> /\ s[Len(s)] \in chars
  THEN rstrip(SubSeq(s, 1, Len(s) - 1), chars)
  ELSE s

\* os.path.splitext(p)[0]: cut at the last dot unless only dots precede it
LastDot(p) ==
  IF \E i \in 1..Len(p) : p[i] = "."
  THEN CHOOSE i \in 1..Len(p) : p[i] = "." /\ \A j \in (i + 1)..Len(p) : p[j] # "."
  ELSE 0

splitext_root(p) ==
  IF LastDot(p) > 0 /\ \E i \in 1..(LastDot(p) - 1) : p[i] # "."
  THEN SubSeq(p, 1, LastDot(p) - 1)
  ELSE p

\* os.path.join(out_dir, root, dir, name)
Path(root, dir, name) == <<root, dir, name>>

\* ------------------------------------------------------------ fragments
Token(k, title, name, num) == [k |-> k, title |-> title, name |-> name, num |-> num]
Xr(name, num) == Token("xr", FALSE, name, num)
XrTitle(name, num) == Token("xr", TRUE, name, num)
Text == Token("text", FALSE, <<>>, "")
Nl == Token("nl", FALSE, <<>>, "")

\* the character class [1-9] of regex_template
num_class == {"1", "2", "3", "4", "5", "6", "7", "8", "9"}

\* One alternative of the name group, matched against the whole text between
\* ">" and "(".  The alternatives are the page names joined unescaped, so
\* "." matches any character and "x+" matches one or more x.
re_atom(c, x) == c = "." \/ c = x

RECURSIVE re_match(_, _)
re_match(p, t) ==
  IF p = <<>> THEN t = <<>>
  ELSE IF Len(p) >= 2 /\ p[2] = "+"
       THEN \E k \in 1..Len(t) :
              /\ \A j \in 1..k : re_atom(p[1], t[j])
              /\ re_match(SubSeq(p, 3, Len(p)), SubSeq(t, k + 1, Len(t)))
       ELSE /\ t # <<>>
            /\ re_atom(p[1], t[1])
            /\ re_match(Tail(p), Tail(t))

\* "|".join(all_pages): an empty list leaves one empty alternative
tmp_regex(all_pages) == IF all_pages = <<>> THEN << <<>> >> ELSE all_pages

name_group(regex, t) == \E a \in 1..Len(regex) : re_match(regex[a], t)

\* a token whose text ends with  >NAME(D)</a>  for a NAME and D the pattern takes
ClosesMatch(regex, tok) ==
  /\ tok.k \in {"xr", "href"}
  /\ tok.num \in num_class
  /\ name_group(regex, tok.name)

\* regex_template: a match starts at the  <a class="Xr"  of the xr token i.
\* The lazy (?P<title>.*?) stretches over anything but a line break up to the
\* first place where  >NAME(D)</a>  follows; 0 when there is no match at i.
MatchEnd(regex, text, i) ==
  LET ends == {j \in i..Len(text) :
                 /\ ClosesMatch(regex, text[j])
                 /\ \A m \in i..(j - 1) : text[m].k # "nl"}
  IN IF text[i].k = "xr" /\ ends # {}
     THEN CHOOSE j \in ends : \A e \in ends : j <= e
     ELSE 0

\* final_regex: the replacement keeps only the groups name and num
final_regex(tok) == Token("href", FALSE, tok.name, tok.num)

RECURSIVE sub_from(_, _, _)
sub_from(regex, text, i) ==
  IF i > Len(text) THEN <<>>
  ELSE IF MatchEnd(regex, text, i) # 0
       THEN <<final_regex(text[MatchEnd(regex, text, i)])>>
              \o sub_from(regex, text, MatchEnd(regex, text, i) + 1)
       ELSE <<text[i]>> \o sub_from(regex, text, i + 1)

\* re.sub(html_regex, final_regex, text)
re_sub(regex, text) == sub_from(regex, text, 1)

\* ---------------------------------------------------------------- inputs
\* names of top-level directories of the input tree
D_man1 == <<"m", "a", "n", "1">>
D_man8 == <<"m", "a", "n", "8">>
D_1man == <<"1", "m", "a", "n">>
D_doc == <<"d", "o", "c">>
DirNames == {D_man1, D_man8, D_1man, D_doc}

\* the order in which os.walk hands out the directories of one tree
dir_order == <<D_1man, D_doc, D_man1, D_man8>>

\* names of files in a section directory
F_a1 == <<"a", ".", "1">>
F_a1in == <<"a", ".", "1", ".", "i", "n">>
F_b8 == <<"b", ".", "8">>
F_in8in == <<"i", "n", ".", "8", ".", "i", "n">>
FileNames == {F_a1, F_a1in, F_b8, F_in8in}

\* the order in which os.listdir hands out the files of one directory
file_order == <<F_a1, F_a1in, F_b8, F_in8in>>

N_a == <<"a">>
N_b == <<"b">>
N_u == <<"u">>

\* what mandoc -T html -O fragment prints for each source file
ManSource(f) ==
  CASE f = F_a1 -> <<Xr(N_b, "8"), Text, Xr(N_u, "1"), Nl, XrTitle(N_a, "1")>>
    [] f = F_a1in -> <<Text, Nl, Xr(N_u, "8")>>
    [] f = F_b8 -> <<Xr(N_u, "8"), Text, Xr(N_a, "1"), Nl, Xr(N_a, "8")>>
    [] f = F_in8in -> <<Text>>
    [] OTHER -> <<>>

\* renderers: deterministic, at most one source file makes mandoc exit non-zero
Renderers ==
  {[f \in FileNames |-> [rc |-> IF f = bad THEN 1 ELSE 0, out |-> ManSource(f)]] :
     bad \in {<<>>, F_b8}}

\* input trees: doc/ is always there, the section directories may be
Listings == {l \in SUBSET FileNames : Cardinality(l) <= MaxFiles}
Trees ==
  UNION {{(D_doc :> {F_b8}) @@ t : t \in [ds -> Listings]} :
           ds \in SUBSET (DirNames \ {D_doc})}

\* ----------------------------------------------------------------- state
VARIABLES
  man_dir,       \* the input tree: top-level directory -> files in it
  mandoc,        \* the renderer: source file -> exit status and output
  pages,         \* run: the page registry, section -> list of pages
  files,         \* output tree: path -> content
  out_dirs,      \* output tree: directories
  pc,            \* position in run / add_hyperlinks
  di,            \* run: index of `section` in dirs
  fi,            \* run: index of `page` in the listing
  procs,         \* renderer processes that are running
  si,            \* run: index of section_num in pages.items()
  pi,            \* run: index of page in section_pages
  html_regex,    \* add_hyperlinks: alternatives of the compiled pattern
  hi,            \* add_hyperlinks: index in the (section, page) iteration
  text,          \* add_hyperlinks: text read from the current fragment
  new_text,      \* add_hyperlinks: text after re.sub
  run_no,        \* which invocation of the tool this is
  first_tree,    \* output tree when the first invocation ended
  nonzero_exit,  \* a renderer exited non-zero in this invocation
  wrote,         \* paths written by run in this invocation
  linked         \* paths written by add_hyperlinks in this invocation

vars == <<man_dir, mandoc, pages, files, out_dirs, pc, di, fi, procs, si, pi,
          html_regex, hi, text, new_text, run_no, first_tree, nonzero_exit,
          wrote, linked>>

input == <<man_dir, mandoc>>
walk_vars == <<di, fi>>
index_vars == <<si, pi>>
link_vars == <<html_regex, hi, text, new_text, linked>>
runs == <<run_no, first_tree>>

Content(kind, body, name, num, file) ==
  [kind |-> kind, body |-> body, name |-> name, num |-> num, file |-> file]

dirs == SelectSeq(dir_order, LAMBDA d : d \in DOMAIN man_dir)
listdir(d) == SelectSeq(file_order, LAMBDA f : f \in man_dir[d])

\* line 77
EmptyPages == [num \in DOMAIN man_sections |-> <<>>]

Locals ==
  /\ pages = EmptyPages
  /\ pc = "walk"
  /\ di = 1
  /\ fi = 1
  /\ procs = {}
  /\ si = 1
  /\ pi = 1
  /\ html_regex = <<>>
  /\ hi = 1
  /\ text = <<>>
  /\ new_text = <<>>
  /\ nonzero_exit = FALSE
  /\ wrote = {}
  /\ linked = {}

Init ==
  /\ man_dir \in Trees
  /\ mandoc \in Renderers
  /\ files = <<>>
  /\ out_dirs = {}
  /\ run_no = 1
  /\ first_tree = <<>>
  /\ Locals

\* ------------------------------------------------- run: discovery walk
section == dirs[di]
section_num == replace(section, S_man, <<>>)
section_suffix == <<".">> \o section_num
out_section_dir == Path(build_dir, section, <<>>)
page == listdir(section)[fi]
stripped_page == rstrip(page, {".", "i", "n"})
page_file == Path(build_dir, section, stripped_page \o S_html)

\* lines 82-83: a directory that is no section is passed over
SkipDir ==
  /\ pc = "walk"
  /\ di <= Len(dirs)
  /\ section_num \notin DOMAIN man_sections
  /\ di' = di + 1
  /\ UNCHANGED <<input, pages, files, out_dirs, pc, fi, procs, index_vars,
                 link_vars, runs, nonzero_exit, wrote>>

\* lines 84-86: makedirs of the fragment directory, then the listing starts
EnterDir ==
  /\ pc = "walk"
  /\ di <= Len(dirs)
  /\ section_num \in DOMAIN man_sections
  /\ out_dirs' = out_dirs \cup {Path(build_dir, <<>>, <<>>), out_section_dir}
  /\ fi' = 1
  /\ pc' = "listdir"
  /\ UNCHANGED <<input, pages, files, di, procs, index_vars, link_vars, runs,
                 nonzero_exit, wrote>>

Accepted(p, suffix) == endswith(p, suffix) \/ endswith(p, suffix \o S_in)

\* lines 87-89
SkipPage ==
  /\ pc = "listdir"
  /\ fi <= Len(listdir(section))
  /\ ~Accepted(page, section_suffix)
  /\ fi' = fi + 1
  /\ UNCHANGED <<input, pages, files, out_dirs, pc, di, procs, index_vars,
                 link_vars, runs, nonzero_exit, wrote>>

\* open(page_file, "a"): an existing file keeps its content
open_a(fs, path) ==
  IF path \in DOMAIN fs THEN fs ELSE (path :> Content("html", <<>>, <<>>, <<>>, <<>>)) @@ fs

\* open(page_file, "w"): the file is created or truncated
open_w(fs, path) == (path :> Content("html", <<>>, <<>>, <<>>, <<>>)) @@ fs

\* lines 91-97: the fragment file is opened and mandoc is started on the page
RenderStart ==
  /\ pc = "listdir"
  /\ fi <= Len(listdir(section))
  /\ Accepted(page, section_suffix)
  /\ files' = open_w(files, page_file)
  /\ wrote' = wrote \cup {page_file}
  /\ procs' = procs \cup {<<section, page>>}
  /\ pc' = "mandoc"
  /\ UNCHANGED <<input, pages, out_dirs, di, fi, index_vars, link_vars, runs,
                 nonzero_exit>>

\* what mandoc printed goes to the end of the open file
Stdout(fs, path, out) == [fs EXCEPT ![path].body = @ \o out]

\* lines 95-100: mandoc exits with status 0 and the page is registered
RenderOk ==
  /\ pc = "mandoc"
  /\ mandoc[page].rc = 0
  /\ files' = Stdout(files, page_file, mandoc[page].out)
  /\ procs' = procs \ {<<section, page>>}
  /\ pages' = [pages EXCEPT ![section_num] = Append(@, stripped_page)]
  /\ fi' = fi + 1
  /\ pc' = "listdir"
  /\ UNCHANGED <<input, out_dirs, di, index_vars, link_vars, runs, nonzero_exit,
                 wrote>>

\* check=False: the exit status is ignored
RenderFailUnchecked ==
  /\ pc = "mandoc"
  /\ mandoc[page].rc # 0
  /\ files' = Stdout(files, page_file, mandoc[page].out)
  /\ procs' = procs \ {<<section, page>>}
  /\ nonzero_exit' = TRUE
  /\ pages' = [pages EXCEPT ![section_num] = Append(@, stripped_page)]
  /\ fi' = fi + 1
  /\ pc' = "listdir"
  /\ UNCHANGED <<input, out_dirs, di, index_vars, link_vars, runs, wrote>>

\* lines 95-98: check=True raises CalledProcessError on a non-zero status
RenderFail ==
  /\ pc = "mandoc"
  /\ mandoc[page].rc # 0
  /\ files' = Stdout(files, page_file, mandoc[page].out)
  /\ procs' = procs \ {<<section, page>>}
  /\ nonzero_exit' = TRUE
  /\ pc' = "failed"
  /\ UNCHANGED <<input, pages, out_dirs, walk_vars, index_vars, link_vars, runs,
                 wrote>>

\* line 86: the listing is exhausted, on to the next directory
LeaveDir ==
  /\ pc = "listdir"
  /\ fi > Len(listdir(section))
  /\ di' = di + 1
  /\ pc' = "walk"
  /\ UNCHANGED <<input, pages, files, out_dirs, fi, procs, index_vars,
                 link_vars, runs, nonzero_exit, wrote>>

\* line 101: break after the first iteration of os.walk
Break ==
  /\ pc = "walk"
  /\ di > Len(dirs)
  /\ pc' = "index"
  /\ UNCHANGED <<input, pages, files, out_dirs, walk_vars, procs, index_vars,
                 link_vars, runs, nonzero_exit, wrote>>

\* ------------------------------------------- run: indexes and stubs
man_path == Path(man_section_dir, <<>>, <<>>)
index_section_num == section_order[si]
section_pages == pages[index_section_num]
rst_dir == Path(man_section_dir, index_section_num, <<>>)
stub_page == section_pages[pi]

\* lines 103-121: the top-level index
WriteIndex ==
  /\ pc = "index"
  /\ out_dirs' = out_dirs \cup {man_path}
  /\ files' = (Path(man_section_dir, <<>>, S_index \o S_rst)
                 :> Content("index", <<>>, <<>>, <<>>, <<>>)) @@ files
  /\ wrote' = wrote \cup {Path(man_section_dir, <<>>, S_index \o S_rst)}
  /\ si' = 1
  /\ pc' = "sections"
  /\ UNCHANGED <<input, pages, walk_vars, procs, pi, link_vars, runs,
                 nonzero_exit>>

\* makedirs placed before the test of line 124
SkipSectionMakedirs ==
  /\ pc = "sections"
  /\ si <= Len(section_order)
  /\ section_pages = <<>>
  /\ out_dirs' = out_dirs \cup {rst_dir}
  /\ si' = si + 1
  /\ UNCHANGED <<input, pages, files, pc, walk_vars, procs, pi, link_vars,
                 runs, nonzero_exit, wrote>>

\* lines 124-125: a section without pages is passed over
SkipSection ==
  /\ pc = "sections"
  /\ si <= Len(section_order)
  /\ section_pages = <<>>
  /\ si' = si + 1
  /\ UNCHANGED <<input, pages, files, out_dirs, pc, walk_vars, procs, pi,
                 link_vars, runs, nonzero_exit, wrote>>

\* lines 126-148: makedirs of the section directory and the section index
WriteSectionIndex ==
  /\ pc = "sections"
  /\ si <= Len(section_order)
  /\ section_pages # <<>>
  /\ out_dirs' = out_dirs \cup {man_path, rst_dir}
  /\ files' = (Path(man_section_dir, index_section_num, S_index \o S_rst)
                 :> Content("section_index", <<>>,
                            man_sections[index_section_num],
                            index_section_num, <<>>)) @@ files
  /\ wrote' = wrote \cup {Path(man_section_dir, index_section_num, S_index \o S_rst)}
  /\ pi' = 1
  /\ pc' = "stubs"
  /\ UNCHANGED <<input, pages, walk_vars, procs, si, link_vars, runs,
                 nonzero_exit>>

\* lines 150-173: the stub of one page; :file: names the fragment to include
Stub(num, name) ==
  Content("stub", <<>>, name, num, Path(build_dir, S_man \o num, name \o S_html))

WriteStub ==
  /\ pc = "stubs"
  /\ pi <= Len(section_pages)
  /\ files' = (Path(man_section_dir, index_section_num, stub_page \o S_rst)
                 :> Stub(index_section_num, stub_page)) @@ files
  /\ wrote' = wrote \cup {Path(man_section_dir, index_section_num, stub_page \o S_rst)}
  /\ pi' = pi + 1
  /\ UNCHANGED <<input, pages, out_dirs, pc, walk_vars, procs, si, link_vars,
                 runs, nonzero_exit>>

\* add_hyperlinks indented into the loop over the sections
NextSectionIndented ==
  /\ pc = "stubs"
  /\ pi > Len(section_pages)
  /\ si' = si + 1
  /\ pc' = "compile"
  /\ UNCHANGED <<input, pages, files, out_dirs, walk_vars, procs, pi,
                 link_vars, runs, nonzero_exit, wrote>>

\* line 149: the pages of the section are exhausted, on to the next section
NextSection ==
  /\ pc = "stubs"
  /\ pi > Len(section_pages)
  /\ si' = si + 1
  /\ pc' = "sections"
  /\ UNCHANGED <<input, pages, files, out_dirs, walk_vars, procs, pi,
                 link_vars, runs, nonzero_exit, wrote>>

\* line 174: the loop over the sections is over, add_hyperlinks is called
CallAddHyperlinks ==
  /\ pc = "sections"
  /\ si > Len(section_order)
  /\ pc' = "compile"
  /\ UNCHANGED <<input, pages, files, out_dirs, walk_vars, procs, index_vars,
                 link_vars, runs, nonzero_exit, wrote>>

\* ------------------------------------------------------- add_hyperlinks
\* lines 55-58: the names of all pages, in pages.items() order
RECURSIVE all_pages_from(_, _)
all_pages_from(registry, i) ==
  IF i > Len(section_order) THEN <<>>
  ELSE [k \in 1..Len(registry[section_order[i]]) |->
          splitext_root(registry[section_order[i]][k])]
         \o all_pages_from(registry, i + 1)

all_pages(registry) == all_pages_from(registry, 1)

\* lines 62-63: the (section, page) pairs the two loops go through
RECURSIVE entries_from(_, _)
entries_from(registry, i) ==
  IF i > Len(section_order) THEN <<>>
  ELSE [k \in 1..Len(registry[section_order[i]]) |->
          <<section_order[i], registry[section_order[i]][k]>>]
         \o entries_from(registry, i + 1)

entries(registry) == entries_from(registry, 1)

\* lines 59-60
BuildRegex ==
  /\ pc = "compile"
  /\ html_regex' = tmp_regex(all_pages(pages))
  /\ hi' = 1
  /\ pc' = "hyperlinks"
  /\ UNCHANGED <<input, pages, files, out_dirs, walk_vars, procs, index_vars,
                 text, new_text, linked, runs, nonzero_exit, wrote>>

file_path ==
  Path(build_dir, S_man \o entries(pages)[hi][1], entries(pages)[hi][2] \o S_html)

\* lines 64-73: one fragment is read, substituted and written back if changed;
\* open() of a fragment that does not exist raises FileNotFoundError
HyperlinkPage ==
  /\ pc = "hyperlinks"
  /\ hi <= Len(entries(pages))
  /\ IF file_path \in DOMAIN files
     THEN /\ text' = files[file_path].body
          /\ new_text' = re_sub(html_regex, text')
          /\ IF text' # new_text'
             THEN /\ files' = [files EXCEPT ![file_path].body = new_text']
                  /\ linked' = linked \cup {file_path}
             ELSE UNCHANGED <<files, linked>>
          /\ hi' = hi + 1
          /\ pc' = pc
     ELSE /\ pc' = "failed"
          /\ UNCHANGED <<files, linked, text, new_text, hi>>
  /\ UNCHANGED <<input, pages, out_dirs, walk_vars, procs, index_vars,
                 html_regex, runs, nonzero_exit, wrote>>

\* add_hyperlinks and run return
Return ==
  /\ pc = "hyperlinks"
  /\ hi > Len(entries(pages))
  /\ pc' = "done"
  /\ UNCHANGED <<input, pages, files, out_dirs, walk_vars, procs, index_vars,
                 link_vars, runs, nonzero_exit, wrote>>

\* ------------------------------------------------------------------ main
\* the tool is invoked again on the same input and output directories
Main ==
  /\ pc \in {"done", "failed"}
  /\ run_no = 1
  /\ run_no' = 2
  /\ first_tree' = <<files, out_dirs>>
  /\ pages' = EmptyPages
  /\ pc' = "walk"
  /\ di' = 1
  /\ fi' = 1
  /\ procs' = {}
  /\ si' = 1
  /\ pi' = 1
  /\ html_regex' = <<>>
  /\ hi' = 1
  /\ text' = <<>>
  /\ new_text' = <<>>
  /\ nonzero_exit' = FALSE
  /\ wrote' = {}
  /\ linked' = {}
  /\ UNCHANGED <<input, files, out_dirs>>

Next ==
  \/ SkipDir
  \/ EnterDir
  \/ SkipPage
  \/ RenderStart
  \/ RenderOk
  \/ RenderFail
  \/ LeaveDir
  \/ Break
  \/ WriteIndex
  \/ SkipSection
  \/ WriteSectionIndex
  \/ WriteStub
  \/ NextSection
  \/ CallAddHyperlinks
  \/ BuildRegex
  \/ HyperlinkPage
  \/ Return
  \/ Main

Spec == Init /\ [][Next]_vars

\* ------------------------------------------- add_hyperlinks on its own
\* The state in which run calls add_hyperlinks (line 174) for a registry and
\* for fragments drawn from bounded sets: the fragments, the indexes and the
\* stubs of the registry are on disk.
P_a1 == <<"a", ".", "1">>
P_b8 == <<"b", ".", "8">>
P_aplusb1 == <<"a", "+", "b", ".", "1">>
PageNames == {P_a1, P_b8, P_aplusb1}
page_order == <<P_a1, P_aplusb1, P_b8>>

N_aplusb == <<"a", "+", "b">>
N_aab == <<"a", "a", "b">>
RefNames == {N_a, N_aplusb, N_aab, N_u}
Tokens ==
  {Xr(n, d) : n \in RefNames, d \in {"1", "8"}} \cup {XrTitle(N_a, "1"), Text, Nl}
Fragments == UNION {[1..n -> Tokens] : n \in 0..MaxTokens}

RegistryOf(ps) ==
  [num \in DOMAIN man_sections |->
     SelectSeq(page_order, LAMBDA p : p \in ps /\ endswith(p, <<".">> \o num))]

TreeOf(registry, frag) ==
  LET es == entries(registry)
      html == [i \in 1..Len(es) |-> Path(build_dir, S_man \o es[i][1], es[i][2] \o S_html)]
      rst == [i \in 1..Len(es) |-> Path(man_section_dir, es[i][1], es[i][2] \o S_rst)]
      idx == [i \in 1..Len(es) |-> Path(man_section_dir, es[i][1], S_index \o S_rst)]
      top == Path(man_section_dir, <<>>, S_index \o S_rst)
      all == {html[i] : i \in 1..Len(es)} \cup {rst[i] : i \in 1..Len(es)}
               \cup {idx[i] : i \in 1..Len(es)} \cup {top}
  IN [path \in all |->
        IF path[1] = build_dir THEN Content("html", frag, <<>>, <<>>, <<>>)
        ELSE IF path = top THEN Content("index", <<>>, <<>>, <<>>, <<>>)
        ELSE IF path[3] = S_index \o S_rst
             THEN Content("section_index", <<>>, man_sections[path[2]], path[2], <<>>)
             ELSE Stub(path[2], SubSeq(path[3], 1, Len(path[3]) - Len(S_rst)))]

DirsOf(registry) ==
  {Path(build_dir, <<>>, <<>>), man_path}
    \cup {Path(build_dir, S_man \o num, <<>>) : num \in {n \in DOMAIN registry : registry[n] # <<>>}}
    \cup {Path(man_section_dir, num, <<>>) : num \in {n \in DOMAIN registry : registry[n] # <<>>}}

LinkInit ==
  \E ps \in {q \in SUBSET PageNames : Cardinality(q) <= MaxPages} :
    \E frag \in Fragments :
      /\ man_dir = [d \in {S_man \o num : num \in {n \in DOMAIN man_sections : RegistryOf(ps)[n] # <<>>}} |->
                      {p \in ps : S_man \o <<p[Len(p)]>> = d}]
      /\ mandoc = [p \in ps |-> [rc |-> 0, out |-> frag]]
      /\ pages = RegistryOf(ps)
      /\ files = TreeOf(pages, frag)
      /\ out_dirs = DirsOf(pages)
      /\ pc = "compile"
      /\ di = Cardinality(DOMAIN man_dir) + 1
      /\ fi = 1
      /\ procs = {}
      /\ si = Len(section_order) + 1
      /\ pi = 1
      /\ html_regex = <<>>
      /\ hi = 1
      /\ text = <<>>
      /\ new_text = <<>>
      /\ run_no = 1
      /\ first_tree = <<>>
      /\ nonzero_exit = FALSE
      /\ wrote = DOMAIN files
      /\ linked = {}

LinkNext ==
  \/ BuildRegex
  \/ HyperlinkPage
  \/ Return

LinkSpec == LinkInit /\ [][LinkNext]_vars

\* ============================================================ properties
Range(f) == {f[i] : i \in DOMAIN f}

\* the section a top-level directory is taken for (line 80)
NumOf(d) == replace(d, S_man, <<>>)
Processed(d) == NumOf(d) \in DOMAIN man_sections
AcceptedIn(d) == {f \in man_dir[d] : Accepted(f, <<".">> \o NumOf(d))}

\* <base>.<N> for a page file <base>.<N> or <base>.<N>.in
Ident(f) == IF endswith(f, S_in) THEN SubSeq(f, 1, Len(f) - Len(S_in)) ELSE f
\* <base> for a page file <base>.<N> or <base>.<N>.in
Base(f) == SubSeq(Ident(f), 1, Len(Ident(f)) - 2)

RstWritten == \E path \in wrote : path[1] = man_section_dir
HyperlinksStarted == pc \in {"compile", "hyperlinks", "done"} \/ html_regex # <<>>

\* ---------------------------------------------------------------- C1
\* C1: once a renderer has exited non-zero the run is in its failed state with
\* no renderer running, no index, section index or stub written, add_hyperlinks
\* not started, and no later step of the run renders, registers or writes
\* anything.
C1_RendererFailureAborts ==
  [][nonzero_exit' =>
       /\ pc' = "failed"
       /\ procs' = {}
       /\ ~RstWritten'
       /\ linked' = {}
       /\ html_regex' = <<>>
       /\ nonzero_exit => UNCHANGED <<files, out_dirs, pages, wrote>>]_vars

\* a renderer failed after a page had been registered and with a page left
C1_Witness ==
  /\ nonzero_exit
  /\ pc = "failed"
  /\ pages # EmptyPages
  /\ fi < Len(listdir(section))

\* ---------------------------------------------------------------- C4
\* C4 (as stated): every accepted page file <base>.<N>[.in] of a processed
\* directory is emitted as the fragment <base>.<N>.html and the stub <base>.rst.
C4_StubIsBaseRst ==
  pc = "done" =>
    \A d \in DOMAIN man_dir : Processed(d) =>
      \A f \in AcceptedIn(d) :
        /\ Path(build_dir, d, Ident(f) \o S_html) \in DOMAIN files
        /\ Path(man_section_dir, NumOf(d), Base(f) \o S_rst) \in DOMAIN files

\* C4 (amended): every accepted page file <base>.<N>[.in] of a processed
\* directory is registered as <base>.<N> and emitted as the fragment
\* <base>.<N>.html and the stub <base>.<N>.rst; no fragment or stub carries
\* the .in suffix in its name.
C4_InSuffixStripped ==
  pc = "done" =>
    \A d \in DOMAIN man_dir : Processed(d) =>
      \A f \in AcceptedIn(d) :
        /\ \E k \in DOMAIN pages[NumOf(d)] : pages[NumOf(d)][k] = Ident(f)
        /\ Path(build_dir, d, Ident(f) \o S_html) \in DOMAIN files
        /\ Path(man_section_dir, NumOf(d), Ident(f) \o S_rst) \in DOMAIN files
        /\ endswith(f, S_in) =>
             /\ Path(build_dir, d, f \o S_html) \notin DOMAIN files
             /\ Path(man_section_dir, NumOf(d), f \o S_rst) \notin DOMAIN files

\* a run succeeded on a tree whose man8 holds in.8.in and whose man1 holds a.1.in
C4_Witness ==
  /\ pc = "done"
  /\ D_man8 \in DOMAIN man_dir
  /\ F_in8in \in man_dir[D_man8]
  /\ D_man1 \in DOMAIN man_dir
  /\ man_dir[D_man1] = {F_a1in}

\* ---------------------------------------------------------------- C5
\* C5: only a top-level directory named man<N>, N a section code, is processed:
\* every fragment directory and every fragment belongs to such a directory.
C5_OnlyManPrefixedDirs ==
  /\ \A dir \in out_dirs : (dir[1] = build_dir /\ dir[2] # <<>>) =>
       \E num \in DOMAIN man_sections : dir[2] = S_man \o num
  /\ \A path \in DOMAIN files : path[1] = build_dir =>
       \E num \in DOMAIN man_sections : path[2] = S_man \o num

\* ---------------------------------------------------------------- C6
\* C6 (as stated): after a successful run a section without pages has no
\* section index and no directory anywhere in the output tree.
C6_NoDirectoryAnywhere ==
  pc = "done" =>
    \A num \in DOMAIN man_sections : pages[num] = <<>> =>
      /\ \A path \in DOMAIN files : ~(path[1] = man_section_dir /\ path[2] = num)
      /\ \A dir \in out_dirs :
           /\ ~(dir[1] = man_section_dir /\ dir[2] = num)
           /\ ~(dir[1] = build_dir /\ dir[2] = S_man \o num)

\* C6 (amended): after a successful run a section without pages has no
\* section index, no stub and no directory under <out>/man; the only
\* directory of the output tree for it is the fragment directory
\* <out>/_build/man/<dir> of each section directory of the input that is
\* taken for that section.
C6_NoIndexNoRstDirectory ==
  pc = "done" =>
    \A num \in DOMAIN man_sections : pages[num] = <<>> =>
      /\ \A path \in DOMAIN files : ~(path[1] = man_section_dir /\ path[2] = num)
      /\ \A dir \in out_dirs : ~(dir[1] = man_section_dir /\ dir[2] = num)
      /\ \A d \in DOMAIN man_dir : NumOf(d) = num =>
           Path(build_dir, d, <<>>) \in out_dirs

\* a run succeeded where man8 exists without any page and section 1 has pages
C6_Witness ==
  /\ pc = "done"
  /\ D_man8 \in DOMAIN man_dir
  /\ pages[<<"8">>] = <<>>
  /\ pages[<<"1">>] # <<>>
  /\ Path(build_dir, D_man8, <<>>) \in out_dirs

\* ---------------------------------------------------------------- C7
\* C7: when the second invocation on the same input and output has ended, the
\* output tree equals the tree the first invocation left.
C7_Idempotent ==
  (run_no = 2 /\ pc \in {"done", "failed"}) => <<files, out_dirs>> = first_tree

\* the second run succeeded and its hyperlink pass rewrote a fragment
C7_Witness ==
  /\ run_no = 2
  /\ pc = "done"
  /\ linked # {}

\* ---------------------------------------------------------------- C8
\* C8: after a successful run every processed directory with a valid page has
\* its section index and a stub per page, and the stub's :file: path names the
\* fragment that was rendered for the page.
C8_StubNamesRenderedFragment ==
  pc = "done" =>
    \A d \in DOMAIN man_dir : Processed(d) =>
      \A f \in AcceptedIn(d) :
        /\ Path(man_section_dir, NumOf(d), S_index \o S_rst) \in DOMAIN files
        /\ Path(man_section_dir, NumOf(d), Ident(f) \o S_rst) \in DOMAIN files
        /\ files[Path(man_section_dir, NumOf(d), Ident(f) \o S_rst)].file
             = Path(build_dir, d, Ident(f) \o S_html)

\* ---------------------------------------------------------------- C9
AllRendered ==
  \A d \in DOMAIN man_dir : Processed(d) =>
    \A f \in AcceptedIn(d) :
      /\ Path(build_dir, d, Ident(f) \o S_html) \in wrote
      /\ \E k \in DOMAIN pages[NumOf(d)] : pages[NumOf(d)][k] = Ident(f)

AllIndexed ==
  /\ Path(man_section_dir, <<>>, S_index \o S_rst) \in wrote
  /\ \A num \in DOMAIN pages : pages[num] # <<>> =>
       /\ Path(man_section_dir, num, S_index \o S_rst) \in wrote
       /\ \A k \in DOMAIN pages[num] :
            Path(man_section_dir, num, pages[num][k] \o S_rst) \in wrote

\* C9: at most one renderer runs, and only in the walk; an index or stub is
\* written only when every page is rendered and registered; add_hyperlinks
\* starts only when the top index, every section index and every stub is
\* written; after the walk the registry never changes.
C9_StrictPhases ==
  /\ [](/\ Cardinality(procs) <= 1
        /\ procs # {} => pc = "mandoc"
        /\ RstWritten => (AllRendered /\ procs = {})
        /\ HyperlinksStarted => (AllRendered /\ AllIndexed))
  /\ [][(pc \in {"index", "sections", "stubs", "compile", "hyperlinks"})
          => (pages' = pages)]_vars

\* the hyperlink pass is under way with pages in two sections
C9_Witness ==
  /\ pc = "hyperlinks"
  /\ hi > 1
  /\ pages[<<"1">>] # <<>>
  /\ pages[<<"8">>] # <<>>

\* ------------------------------------------------- C2, C3, C10: re.sub
Known(name) == name \in Range(all_pages(pages))

Refs(t, kind) ==
  LET sel == SelectSeq(t, LAMBDA tok :
                 tok.k = kind /\ Known(tok.name) /\ tok.num \in num_class)
  IN [i \in 1..Len(sel) |-> <<sel[i].name, sel[i].num>>]

UnknownXr(t) == SelectSeq(t, LAMBDA tok : tok.k = "xr" /\ ~Known(tok.name))

\* C2: the anchors NAME(D) of registered names in the fragment read are, in
\* order, exactly the links ../D/NAME.D.html NAME(D) of the fragment written.
C2_KnownRefsLinked ==
  hi > 1 => Refs(text, "xr") = Refs(new_text, "href")

\* C3: the anchors of names absent from the registry are the same, in order,
\* before and after the substitution, none of them became a link, and a
\* fragment with only such anchors is unchanged and not written.
C3_UnknownRefsUntouched ==
  hi > 1 =>
    /\ UnknownXr(text) = UnknownXr(new_text)
    /\ \A i \in DOMAIN new_text : new_text[i].k = "href" => Known(new_text[i].name)
    /\ (\A i \in DOMAIN text : text[i].k = "xr" => ~Known(text[i].name))
         => (new_text = text /\ linked = {})

\* C10: every link of the fragment written names a page of the registry under
\* the section of the link.
C10_LinksExist ==
  hi > 1 =>
    \A i \in DOMAIN new_text : new_text[i].k = "href" =>
      /\ <<new_text[i].num>> \in DOMAIN pages
      /\ \E k \in DOMAIN pages[<<new_text[i].num>>] :
           pages[<<new_text[i].num>>][k] = new_text[i].name \o <<".", new_text[i].num>>

====
